---- MODULE Spec2Model ----
(* Interval state machine of neflo (src/src/tracker.rs): Tracker::tick,      *)
(* Tracker::update_db, Tracker::prune_old_data, Tracker::reset, the storage  *)
(* gateway they save through (src/src/storage.rs), the run loop              *)
(* (src/src/tui.rs) and the Start command (src/src/main.rs).                 *)
(*                                                                           *)
(* Time. A timestamp (chrono DateTime<Utc>) and an idle time (f64 seconds)   *)
(* are integers counted in units of 1/Second of a second, so that values     *)
(* between two whole seconds exist and `idle_time as i64` has something to   *)
(* truncate.                                                                 *)
EXTENDS Integers, Sequences, FiniteSets, TLC

VARIABLES
    intervals,       \* Tracker.db.intervals : Vec<Interval>
    threshold_secs,  \* Tracker.threshold_secs (whole seconds)
    last_kind_seen,  \* Tracker.last_kind_seen : Option<IntervalType>
    state_start,     \* Tracker.state_start
    last_save,       \* Tracker.last_save
    file,            \* the canonical file (db.json)
    clock,           \* Utc::now()
    status,          \* "running", or "failed" once a tick returned Err
    ticked,          \* history: some tick has run
    t_prev,          \* history: db.intervals when the last tick was entered
    t_idle,          \* history: idle_time of the last tick
    t_now,           \* history: now of the last tick
    t_kind,          \* history: current_kind computed by the last tick
    t_branch,        \* history: the path update_db took in the last tick
    t_updated,       \* history: db.intervals when update_db returned
    t_saves,         \* history: the storage.save calls of the last tick, in order
    t_result,        \* history: what the last tick returned, "Ok" or "Err"
    steady,          \* history: every step between ticks so far was in (0, 10 s]
    n_ticks,         \* history: number of ticks so far
    start_time,      \* Tracker.start_time : Option<NaiveTime>, as a set of 0 or 1
    end_time,        \* Tracker.end_time : Option<NaiveTime>, as a set of 0 or 1
    duration,        \* Tracker.duration : Option<Duration>, as a set of 0 or 1
    run_start_time,  \* Tracker.run_start_time
    session_ended_saved, \* Tracker.session_ended_saved
    tmp,             \* the temporary file next to the canonical one (db.tmp)
    sv,              \* where the Storage::save under way stands, or "idle"
    sv_old,          \* history: the canonical file when that save began, while
                     \* it is under way
    pc,              \* where each Start command stands in main
    lock,            \* the processes that hold neflo.lock
    touched,         \* history: the Start commands that loaded, ticked or saved
    n_polls,         \* history: number of loop iterations so far
    l_exit,          \* history: why and when run_loop last returned
    ret              \* what the last call of a function of stats.rs, of
                     \* should_stop, of should_track or of Tracker::new on the
                     \* texts of a configuration returned, if any

\* the fields of the Tracker that only Tracker::new sets
settings == <<threshold_secs, start_time, end_time, duration, run_start_time>>

\* the files and the save under way
store == <<tmp, sv, sv_old>>

\* the Start commands
procs == <<pc, lock, n_polls, l_exit>>

vars == <<intervals, threshold_secs, last_kind_seen, state_start, last_save,
          file, clock, status, ticked, t_prev, t_idle, t_now, t_kind,
          t_branch, t_updated, t_saves, t_result, steady, n_ticks,
          start_time, end_time, duration, run_start_time, session_ended_saved,
          tmp, sv, sv_old, pc, lock, touched, n_polls, l_exit, ret>>

-----------------------------------------------------------------------------
(* Units and program constants *)

Second == 2

SecsPerMin == 60

GapSecs == 10

SaveSecs == 30

RetentionDays == 30

SecsPerDay == 86400

gap_threshold == GapSecs * Second

-----------------------------------------------------------------------------
(* Bounds of the model *)

MaxTicks == 3

\* the wall clock when the run starts
T0 == 60 * Second

\* the Start commands that are launched
Procs == {1, 2}

\* logs an earlier run left in the canonical file
LoadedLogs == { << >>, << [start |-> 0, end |-> T0, kind |-> "Focus"] >> }

\* threshold_mins given to Tracker::new
ThresholdMins == {0, 1}

\* steps of the wall clock between two ticks, run in order
Steps == {0, 10 * Second - 1, 10 * Second, 10 * Second + 1, 31 * Second}

\* steps of a wall clock that may also be set back
AnySteps == {-(11 * Second), -1, 0, 10 * Second, 10 * Second + 1}

\* logs the canonical file may hold when it was not written by this program
\* alone: the second and third hold an interval with end < start
AnyLogs ==
    { << >>,
      << [start |-> T0, end |-> T0 - 20 * Second, kind |-> "Focus"] >>,
      << [start |-> T0, end |-> T0 - 20 * Second, kind |-> "Idle"],
         [start |-> T0 - Second, end |-> T0, kind |-> "Focus"] >> }

\* idle times the probe reports
Idles == {-Second, 0, 60 * Second, 70 * Second - 1}

\* steps of the wall clock of a run that lasts for months: across the save
\* period, and just below, at and just above the retention period
LongSteps ==
    {31 * Second,
     RetentionDays * SecsPerDay * Second - 1,
     RetentionDays * SecsPerDay * Second,
     RetentionDays * SecsPerDay * Second + 1}

\* steps of the wall clock of a run that never pauses: non-decreasing and at
\* most the gap threshold
SteadySteps == {0, 1, 10 * Second - 1, 10 * Second}

\* idle times the probe reports in a run that never pauses: some shorter than
\* the run, so that the boundary is backdated into the last interval
SteadyIdles == {-Second, 0, 5 * Second, 60 * Second}

\* idle times the probe reports in such a run
LongIdles == {0, 60 * Second}

MaxPolls == 3

\* time one iteration of the run loop takes (draw, then poll for a key)
PollSteps == {10 * Second, 31 * Second}

\* start time, end time (local time of day) and timeout a Start command is
\* given, each absent or present; the run starts at 00:01:00
RunSettings ==
    { [st |-> {}, et |-> {}, du |-> {}],
      [st |-> {}, et |-> {}, du |-> {20 * Second}],
      [st |-> {}, et |-> {120 * Second}, du |-> {}],
      [st |-> {120 * Second}, et |-> {}, du |-> {}] }

\* a time of day, h:m:00
TimeOfDay(h, m) == (h * 60 + m) * SecsPerMin * Second

\* start time, end time and timeout of the Trackers whose session window is
\* asked for: each absent, or 09:00, 00:30 and one hour
WindowSettings ==
    [st : {{}, {TimeOfDay(9, 0)}},
     et : {{}, {TimeOfDay(0, 30)}},
     du : {{}, {60 * SecsPerMin * Second}}]

\* the instants at which it is asked, the run having started at 00:01:00:
\* just before and at the end time, the end of the timeout and the start
\* time, and in the morning and the evening of the next day
WindowTimes ==
    {T0,
     TimeOfDay(1, 1) - 1, TimeOfDay(1, 1), TimeOfDay(1, 1) + 1,
     TimeOfDay(9, 0) - 1, TimeOfDay(9, 0),
     TimeOfDay(0, 30) - 1, TimeOfDay(0, 30),
     TimeOfDay(24 + 8, 0), TimeOfDay(24 + 18, 0)}

\* the instant h:m:00 of the day that lies `day` days after 1970-01-01
At(day, h, m) == day * SecsPerDay * Second + TimeOfDay(h, m)

\* intervals of a log the statistics are computed over, in the order of their
\* starts: on the Sunday 1970-01-04, on the Monday after (across midnight),
\* three on the Thursday after (the second with end < start), on the Sunday
\* after and on the Monday after that
StatIntervals ==
    << [start |-> At(3, 10, 0), end |-> At(3, 11, 0), kind |-> "Focus"],
       [start |-> At(4, 23, 30), end |-> At(5, 0, 30), kind |-> "Idle"],
       [start |-> At(7, 8, 0), end |-> At(7, 10, 0), kind |-> "Focus"],
       [start |-> At(7, 12, 0), end |-> At(7, 11, 0), kind |-> "Focus"],
       [start |-> At(7, 22, 0), end |-> At(7, 22, 30), kind |-> "Idle"],
       [start |-> At(10, 9, 0), end |-> At(10, 9, 10), kind |-> "Focus"],
       [start |-> At(11, 9, 0), end |-> At(11, 9, 30), kind |-> "Focus"] >>

\* the logs: the intervals named by a set of positions of StatIntervals, in
\* order
RECURSIVE Pick(_, _)
Pick(n, chosen) ==
    IF n = 0 THEN << >>
    ELSE IF n \in chosen THEN Append(Pick(n - 1, chosen), StatIntervals[n])
    ELSE Pick(n - 1, chosen)

StatLogs == {Pick(Len(StatIntervals), chosen) : chosen \in SUBSET (1..Len(StatIntervals))}

\* Local::now() when the statistics are computed: a Thursday evening and the
\* Sunday and the Monday after it
StatNows == {At(7, 23, 50), At(10, 12, 0), At(11, 12, 0)}

\* run_start_time of the Tracker: on the Thursday, at 09:00 and at 22:00
StatRunStarts == {At(7, 9, 0), At(7, 22, 0)}

\* texts given as start time or end time: 00:02, 24:00, 09:60, and a text
\* that is not two numbers around a colon
TwoPastMidnight == [form |-> "HH:MM", h |-> 0, m |-> 2]

HourTooLarge == [form |-> "HH:MM", h |-> 24, m |-> 0]

MinuteTooLarge == [form |-> "HH:MM", h |-> 9, m |-> 60]

NotATime == [form |-> "other", h |-> 0, m |-> 0]

\* texts given as timeout: 20s, and a text that is not a number and a unit
TwentySeconds == [form |-> "span", n |-> 20, unit |-> "s"]

NotADuration == [form |-> "other", n |-> 0, unit |-> ""]

\* start time, end time and timeout as main hands them to Tracker::new, each
\* absent or a text
ConfigTexts ==
    {[st |-> {}, et |-> {}, du |-> {}],
     [st |-> {}, et |-> {}, du |-> {TwentySeconds}],
     [st |-> {}, et |-> {TwoPastMidnight}, du |-> {}],
     [st |-> {TwoPastMidnight}, et |-> {}, du |-> {}],
     [st |-> {HourTooLarge}, et |-> {}, du |-> {}],
     [st |-> {}, et |-> {MinuteTooLarge}, du |-> {}],
     [st |-> {}, et |-> {}, du |-> {NotADuration}],
     [st |-> {NotATime}, et |-> {}, du |-> {TwentySeconds}]}

-----------------------------------------------------------------------------
(* Pure helpers *)

Last(s) == s[Len(s)]

ReplaceLast(s, x) == [s EXCEPT ![Len(s)] = x]

\* Interval::new_at(kind, now)
NewAt(kind, now) == [start |-> now, end |-> now, kind |-> kind]

\* `idle_time as i64`: truncation toward zero, to whole seconds
TruncSecs(idle_time) ==
    IF idle_time >= 0 THEN idle_time \div Second
    ELSE -((-idle_time) \div Second)

\* mutant: a sample exactly at the threshold is left Focus
ClassifyAbove(idle_time, threshold) ==
    IF idle_time > threshold * Second THEN "Idle" ELSE "Focus"

\* mutant: the comparison is turned around
ClassifyBelow(idle_time, threshold) ==
    IF idle_time < threshold * Second THEN "Idle" ELSE "Focus"

\* current_kind of Tracker::tick
Classify(idle_time, threshold) ==
    IF idle_time >= threshold * Second THEN "Idle" ELSE "Focus"

\* mutant: a distance of exactly the threshold already counts as a gap
IsGapAtThreshold(last, now) == now - last.end >= gap_threshold

\* now - db.intervals[last_idx].end > gap_threshold
IsGap(last, now) == now - last.end > gap_threshold

\* mutant: the idle time is subtracted without the cast to whole seconds
IdleStartExact(idle_time, now) == now - idle_time

\* idle_start of the Focus -> Idle transition
IdleStart(idle_time, now) == now - TruncSecs(idle_time) * Second

\* mutant: the boundary is always backdated, however far
CollapsesNever(last, idle_start) == FALSE

\* mutant: the tie idle_start = last.start splits
CollapsesStrict(last, idle_start) == idle_start < last.start

\* idle_start <= db.intervals[last_idx].start
Collapses(last, idle_start) == idle_start <= last.start

KeepInterval(i) == i.end >= i.start

KeepPositive(i) == i.end > i.start

\* mutant: intervals of zero length are removed too
CleanupZeroToo(ivs) == SelectSeq(ivs, KeepPositive)

\* db.intervals.retain(|i| i.end >= i.start)
Cleanup(ivs) == SelectSeq(ivs, KeepInterval)

\* the path update_db takes
Branch(ivs, current_kind, idle_time, now) ==
    IF ivs = << >> THEN "empty"
    ELSE IF IsGap(Last(ivs), now) THEN "gap"
    ELSE IF Last(ivs).kind = current_kind THEN "continuation"
    ELSE IF current_kind = "Idle"
         THEN IF Collapses(Last(ivs), IdleStart(idle_time, now))
              THEN "collapse" ELSE "split"
    ELSE "idle_to_focus"

\* mutant: the split leaves the end of the Focus interval where it was
FocusToIdleOpenEnd(ivs, idle_time, now) ==
    LET last == Last(ivs)
        idle_start == IdleStart(idle_time, now)
    IN  IF Collapses(last, idle_start)
        THEN ReplaceLast(ivs, [last EXCEPT !.kind = "Idle", !.end = now])
        ELSE Append(ivs, [NewAt("Idle", now) EXCEPT !.start = idle_start, !.end = now])

\* the Focus -> Idle transition of update_db, before the cleanup
FocusToIdle(ivs, idle_time, now) ==
    LET last == Last(ivs)
        idle_start == IdleStart(idle_time, now)
    IN  IF Collapses(last, idle_start)
        THEN ReplaceLast(ivs, [last EXCEPT !.kind = "Idle", !.end = now])
        ELSE Append(ReplaceLast(ivs, [last EXCEPT !.end = idle_start]),
                    [NewAt("Idle", now) EXCEPT !.start = idle_start, !.end = now])

\* mutant: the Idle interval is not closed at now
IdleToFocusOpenEnd(ivs, now) == Append(ivs, NewAt("Focus", now))

\* the Idle -> Focus transition of update_db, before the cleanup
IdleToFocus(ivs, now) ==
    Append(ReplaceLast(ivs, [Last(ivs) EXCEPT !.end = now]), NewAt("Focus", now))

\* mutant: the first interval of an Idle tick is backdated by the idle time
UpdateDbBackdatedFirst(ivs, current_kind, idle_time, now) ==
    IF ivs = << >>
    THEN << [NewAt(current_kind, now) EXCEPT
                !.start = IF current_kind = "Idle" THEN IdleStart(idle_time, now) ELSE now] >>
    ELSE IF IsGap(Last(ivs), now) THEN Append(ivs, NewAt(current_kind, now))
    ELSE Cleanup(
        IF Last(ivs).kind = current_kind
        THEN ReplaceLast(ivs, [Last(ivs) EXCEPT !.end = now])
        ELSE IF current_kind = "Idle"
             THEN FocusToIdle(ivs, idle_time, now)
             ELSE IdleToFocus(ivs, now))

\* Tracker::update_db
UpdateDb(ivs, current_kind, idle_time, now) ==
    IF ivs = << >> THEN << NewAt(current_kind, now) >>
    ELSE IF IsGap(Last(ivs), now) THEN Append(ivs, NewAt(current_kind, now))
    ELSE Cleanup(
        IF Last(ivs).kind = current_kind
        THEN ReplaceLast(ivs, [Last(ivs) EXCEPT !.end = now])
        ELSE IF current_kind = "Idle"
             THEN FocusToIdle(ivs, idle_time, now)
             ELSE IdleToFocus(ivs, now))

\* prune_old_data with the comparison turned around: the old intervals stay
PruneOldDataKeepsOld(ivs, now) ==
    LET thirty_days_ago == now - RetentionDays * SecsPerDay * Second
        Old(i) == i.end < thirty_days_ago
    IN  SelectSeq(ivs, Old)

\* prune_old_data keeping the interval that ended exactly 30 days ago
PruneOldDataKeepsBoundary(ivs, now) ==
    LET thirty_days_ago == now - RetentionDays * SecsPerDay * Second
        Recent(i) == i.end >= thirty_days_ago
    IN  SelectSeq(ivs, Recent)

\* Tracker::prune_old_data, with Utc::now() = now
PruneOldData(ivs, now) ==
    LET thirty_days_ago == now - RetentionDays * SecsPerDay * Second
        Recent(i) == i.end > thirty_days_ago
    IN  SelectSeq(ivs, Recent)

-----------------------------------------------------------------------------
(* stats.rs: calculate_summary and calculate_stats *)

\* with_timezone(&Local).date_naive(), the local zone being UTC: days since
\* 1970-01-01
DateOf(t) == t \div (SecsPerDay * Second)

\* mutant: the week is counted from Sunday
DaysFromSunday(date) == (date + 4) % 7

\* weekday().num_days_from_monday(): 1970-01-01 was a Thursday
DaysFromMonday(date) == (date + 3) % 7

\* mutant: no interval is skipped
SkippedNever(dur) == FALSE

\* if duration < Duration::zero() { continue; }
Skipped(dur) == dur < 0

\* mutant: the session starts strictly after run_start
AfterRunStart(start, run_start) == start > run_start

\* interval.start >= run_start
SinceRunStart(start, run_start) == start >= run_start

\* SummaryStats::default()
SummaryDefault ==
    [total_focus |-> 0, total_idle |-> 0, focus_count |-> 0, idle_count |-> 0,
     max_focus |-> {}, min_focus |-> {}, max_idle |-> {}, min_idle |-> {}]

\* Some(m.map_or(duration, |m| m.max(duration)))
MaxOpt(opt, dur) ==
    IF opt = {} THEN {dur} ELSE {IF m > dur THEN m ELSE dur : m \in opt}

\* Some(m.map_or(duration, |m| m.min(duration)))
MinOpt(opt, dur) ==
    IF opt = {} THEN {dur} ELSE {IF m < dur THEN m ELSE dur : m \in opt}

\* the loop of calculate_summary over the first n intervals
RECURSIVE SummaryLoop(_, _)
SummaryLoop(ivs, n) ==
    IF n = 0 THEN SummaryDefault
    ELSE LET summary == SummaryLoop(ivs, n - 1)
             interval == ivs[n]
             dur == interval.end - interval.start
         IN  IF Skipped(dur) THEN summary
             ELSE IF interval.kind = "Focus"
             THEN [summary EXCEPT !.total_focus = @ + dur,
                                  !.focus_count = @ + 1,
                                  !.max_focus = MaxOpt(@, dur),
                                  !.min_focus = MinOpt(@, dur)]
             ELSE [summary EXCEPT !.total_idle = @ + dur,
                                  !.idle_count = @ + 1,
                                  !.max_idle = MaxOpt(@, dur),
                                  !.min_idle = MinOpt(@, dur)]

\* calculate_summary(intervals)
CalculateSummary(ivs) == SummaryLoop(ivs, Len(ivs))

\* DayStats::default()
DayDefault ==
    [total_focus |-> 0, total_idle |-> 0, focus_sessions |-> 0, idle_sessions |-> 0]

\* the loop of calculate_stats over the first n intervals, for the bucket of
\* the day date: daily_stats.entry(date).or_default() and what is added to it
RECURSIVE DayLoop(_, _, _)
DayLoop(ivs, n, date) ==
    IF n = 0 THEN DayDefault
    ELSE LET stats == DayLoop(ivs, n - 1, date)
             interval == ivs[n]
             dur == interval.end - interval.start
         IN  IF DateOf(interval.start) # date THEN stats
             ELSE IF interval.kind = "Focus"
             THEN [stats EXCEPT !.total_focus = @ + dur, !.focus_sessions = @ + 1]
             ELSE [stats EXCEPT !.total_idle = @ + dur, !.idle_sessions = @ + 1]

\* calculate_stats(db, run_start_time) with Local::now() = now_local;
\* run_start is the Option as a set of 0 or 1
CalculateStats(db, run_start, now_local) ==
    LET today == DateOf(now_local)
        days_from_monday == DaysFromMonday(today)
        week_start == today - days_from_monday
        week_end == week_start + 6
        InSessionList(i) == \E r \in run_start : SinceRunStart(i.start, r)
        InTodayList(i) == DateOf(i.start) = today
        InWeekList(i) == DateOf(i.start) >= week_start /\ DateOf(i.start) <= week_end
    IN  [daily_stats |-> [date \in {DateOf(db[n].start) : n \in 1..Len(db)}
                            |-> DayLoop(db, Len(db), date)],
         session_summary |-> CalculateSummary(SelectSeq(db, InSessionList)),
         today_summary |-> CalculateSummary(SelectSeq(db, InTodayList)),
         week_summary |-> CalculateSummary(SelectSeq(db, InWeekList)),
         today |-> today,
         week_start |-> week_start]

-----------------------------------------------------------------------------
(* Storage: the canonical file and what load and save make of it *)

\* A file is a record: exists (there is an entry at the path), stat (its
\* metadata can be read), readable (its content can be read), whole (its
\* content is a whole JSON document) and data (the entries written so far).

\* a path nothing was written to
NoFile ==
    [exists |-> FALSE, stat |-> FALSE, readable |-> FALSE, whole |-> FALSE,
     data |-> << >>]

\* self.path.exists(): false as well when the metadata cannot be read
PathExists(f) == f.exists /\ f.stat

\* mutant: a timestamp is written to the whole second
TimeToTextWholeSecond(t) == [secs |-> t \div Second, frac |-> 0]

\* a DateTime<Utc> as serde writes it: whole seconds and the fraction
TimeToText(t) == [secs |-> t \div Second, frac |-> t % Second]

TextToTime(x) == x.secs * Second + x.frac

\* an IntervalType as serde writes it: the name of the variant
KindToText(kind) == IF kind = "Idle" THEN "\"Idle\"" ELSE "\"Focus\""

TextToKind(x) == IF x = "\"Idle\"" THEN "Idle" ELSE "Focus"

\* serde_json::to_string_pretty(db)
ToStringPretty(ivs) ==
    [n \in 1..Len(ivs) |->
        [start |-> TimeToText(ivs[n].start),
         end |-> TimeToText(ivs[n].end),
         kind |-> KindToText(ivs[n].kind)]]

\* serde_json::from_str(&data) on a whole document
FromStr(data) ==
    [n \in 1..Len(data) |->
        [start |-> TextToTime(data[n].start),
         end |-> TextToTime(data[n].end),
         kind |-> TextToKind(data[n].kind)]]

\* a file that fs::write filled with the whole of data
Written(data) ==
    [exists |-> TRUE, stat |-> TRUE, readable |-> TRUE, whole |-> TRUE, data |-> data]

\* the canonical file after a successful Storage::save(db)
Saved(ivs) == Written(ToStringPretty(ivs))

\* a file that fs::write was filling with data when it stopped after k of
\* its entries: what is there is not a whole document
Torn(data, k) ==
    [exists |-> TRUE, stat |-> TRUE, readable |-> TRUE, whole |-> FALSE,
     data |-> SubSeq(data, 1, k)]

\* the canonical path, base_dir/db.json
Path == "db.json"

\* mutant: the document is written to the canonical path itself
TmpPathInPlace == Path

\* tmp_path of Storage::save: self.path.with_extension("tmp")
TmpPath == "db.tmp"

\* Storage::load
Load(f) ==
    IF ~PathExists(f) THEN [ok |-> TRUE, db |-> << >>]
    ELSE IF ~f.readable \/ ~f.whole THEN [ok |-> FALSE, db |-> << >>]
    ELSE [ok |-> TRUE, db |-> FromStr(f.data)]

\* mutant: the first tick of a run is not taken for a change
KindChangedAfterFirst(current_kind, seen) == seen # "None" /\ current_kind # seen

\* mutant: the periodic save writes the log before it is pruned
PeriodicWritesUnpruned(ivs, now) == ivs

\* the log the periodic save of Tracker::tick writes: prune_old_data has run
\* on db when storage.save(&self.db) is called
PeriodicWrites(ivs, now) == PruneOldData(ivs, now)

\* what the canonical file may be when a Start command is launched: absent,
\* a saved log, a document cut short, a file that cannot be read, a file
\* whose metadata cannot be read either
RunFiles ==
    LET ivs == << [start |-> 0, end |-> 60 * Second, kind |-> "Focus"] >>
    IN  { NoFile,
          Saved(ivs),
          Torn(ToStringPretty(ivs), 0),
          [Saved(ivs) EXCEPT !.readable = FALSE],
          [Saved(ivs) EXCEPT !.readable = FALSE, !.stat = FALSE] }

\* mutant: an hour of 24 and a minute of 60 are taken as they come
ParseTimeAnyNumber(txt) ==
    IF txt.form = "HH:MM"
    THEN [ok |-> TRUE, value |-> TimeOfDay(txt.h, txt.m)]
    ELSE [ok |-> FALSE, value |-> 0]

\* NaiveTime::parse_from_str(&s, "%H:%M")
ParseTime(txt) ==
    IF txt.form = "HH:MM" /\ txt.h \in 0..23 /\ txt.m \in 0..59
    THEN [ok |-> TRUE, value |-> TimeOfDay(txt.h, txt.m)]
    ELSE [ok |-> FALSE, value |-> 0]

\* humantime::parse_duration(&s), then chrono::Duration::from_std
ParseDuration(txt) ==
    IF txt.form = "span" /\ txt.unit \in {"s", "m", "h"}
    THEN [ok |-> TRUE,
          value |-> txt.n * Second * (IF txt.unit = "s" THEN 1
                                      ELSE IF txt.unit = "m" THEN SecsPerMin
                                      ELSE 60 * SecsPerMin)]
    ELSE [ok |-> FALSE, value |-> 0]

\* the three `.map(parse).transpose()?` of Tracker::new: the parsed Options,
\* and whether every text that is present parsed
ParseConfig(c) ==
    [ok |-> /\ \A t \in c.st : ParseTime(t).ok
            /\ \A t \in c.et : ParseTime(t).ok
            /\ \A d \in c.du : ParseDuration(d).ok,
     st |-> {ParseTime(t).value : t \in c.st},
     et |-> {ParseTime(t).value : t \in c.et},
     du |-> {ParseDuration(d).value : d \in c.du}]

\* now.with_timezone(&Local).time(), the local zone being UTC
LocalTime(now) == now % (SecsPerDay * Second)

\* should_track that looks at the start time even when a timeout is set
ShouldTrackStartFirst(now, du, st) ==
    IF st # {} /\ (\E t \in st : LocalTime(now) < t) THEN FALSE
    ELSE TRUE

\* should_stop that stops at whichever of timeout and end time comes first
ShouldStopEitherLimit(now, du, et, started) ==
    \/ \E d \in du : now - started >= d
    \/ \E t \in et : LocalTime(now) >= t

\* Tracker::should_track
ShouldTrack(now, du, st) ==
    IF du # {} THEN TRUE
    ELSE IF st # {} /\ (\E t \in st : LocalTime(now) < t) THEN FALSE
    ELSE TRUE

\* Tracker::should_stop
ShouldStop(now, du, et, started) ==
    IF du # {} THEN \E d \in du : now - started >= d
    ELSE IF et # {} THEN \E t \in et : LocalTime(now) >= t
    ELSE FALSE

\* mutant: the lock is taken shared
TryRead(held, p) == [ok |-> TRUE, holders |-> held \cup {p}]

\* lock.try_write() of process p on neflo.lock held by the processes held
TryWrite(held, p) ==
    [ok |-> held = {}, holders |-> IF held = {} THEN {p} ELSE held]

\* the transition test of Tracker::tick
KindChanged(current_kind, seen) == current_kind # seen

\* mutant: the periodic save is due at every tick
SaveDueAlways(now, saved_at) == now - saved_at >= 0

\* mutant: the periodic save waits twice as long
SaveDueLate(now, saved_at) == now - saved_at > 2 * SaveSecs * Second

\* the periodic test of Tracker::tick
SaveDue(now, saved_at) == now - saved_at > SaveSecs * Second

\* one call of storage.save made by a tick, and how it ended
SaveCall(why, ok) == [why |-> why, ok |-> ok]

\* mutant: the error of the periodic save is dropped
ReturnedOfTransition(saves) ==
    IF \E n \in 1..Len(saves) : saves[n].why = "transition" /\ ~saves[n].ok
    THEN "Err" ELSE "Ok"

\* what Tracker::tick returns: the `?` after each storage.save
Returned(saves) ==
    IF \E n \in 1..Len(saves) : ~saves[n].ok THEN "Err" ELSE "Ok"

-----------------------------------------------------------------------------
(* State machine *)

\* no function of stats.rs, should_stop or should_track has been called
NoCall == [fn |-> "none"]

\* a Tracker created without start time, end time or timeout
Untimed ==
    /\ start_time = {}
    /\ end_time = {}
    /\ duration = {}
    /\ run_start_time = clock
    /\ session_ended_saved = FALSE

\* the first Start command holds the lock, its Tracker::new has loaded the
\* canonical file and run_loop is entered; no save is under way
FirstHolds ==
    /\ tmp = NoFile
    /\ sv = "idle"
    /\ sv_old = NoFile
    /\ pc = [p \in Procs |-> IF p = 1 THEN "poll" ELSE "start"]
    /\ lock = {1}
    /\ touched = [p \in Procs |-> p = 1]
    /\ n_polls = 0
    /\ l_exit = [why |-> "none", at |-> 0]
    /\ ret = NoCall

\* process p has loaded, ticked or saved the log
Did(p) == touched' = [touched EXCEPT ![p] = TRUE]

\* Tracker::new: the log is loaded from the canonical file and pruned
Init ==
    /\ clock = T0
    /\ file \in {Saved(ivs) : ivs \in LoadedLogs}
    /\ intervals = PruneOldData(Load(file).db, clock)
    /\ threshold_secs \in {m * SecsPerMin : m \in ThresholdMins}
    /\ last_kind_seen = "None"
    /\ state_start = clock
    /\ last_save = clock
    /\ status = "running"
    /\ ticked = FALSE
    /\ t_prev = << >>
    /\ t_idle = 0
    /\ t_now = 0
    /\ t_kind = "None"
    /\ t_branch = "none"
    /\ t_updated = << >>
    /\ t_saves = << >>
    /\ t_result = "Ok"
    /\ steady = TRUE
    /\ n_ticks = 0
    /\ Untimed
    /\ FirstHolds

\* Tracker::tick(idle_time, now); ok1 and ok2 are the results of the
\* transition save and of the periodic save
Tick(idle_time, now, ok1, ok2) ==
    LET current_kind == Classify(idle_time, threshold_secs)
        updated == UpdateDb(intervals, current_kind, idle_time, now)
        changed == KindChanged(current_kind, last_kind_seen)
        failed1 == changed /\ ~ok1
        saved1 == changed /\ ok1
        save_at == IF saved1 THEN now ELSE last_save
        periodic == ~failed1 /\ SaveDue(now, save_at)
        pruned == IF periodic THEN PruneOldData(updated, now) ELSE updated
        failed2 == periodic /\ ~ok2
        saved2 == periodic /\ ok2
        saves == (IF changed THEN << SaveCall("transition", ok1) >> ELSE << >>)
                 \o (IF periodic THEN << SaveCall("periodic", ok2) >> ELSE << >>)
    IN  /\ status = "running"
        /\ n_ticks < MaxTicks
        /\ n_ticks' = n_ticks + 1
        /\ clock' = now
        /\ intervals' = pruned
        /\ state_start' = IF changed THEN now ELSE state_start
        /\ last_kind_seen' = IF changed THEN current_kind ELSE last_kind_seen
        /\ last_save' = IF saved2 THEN now ELSE save_at
        /\ file' = IF saved2 THEN Saved(PeriodicWrites(updated, now))
                   ELSE IF saved1 THEN Saved(updated) ELSE file
        /\ t_result' = Returned(saves)
        /\ status' = IF t_result' = "Err" THEN "failed" ELSE "running"
        /\ ticked' = TRUE
        /\ t_prev' = intervals
        /\ t_idle' = idle_time
        /\ t_now' = now
        /\ t_kind' = current_kind
        /\ t_branch' = Branch(intervals, current_kind, idle_time, now)
        /\ t_updated' = updated
        /\ t_saves' = saves
        /\ steady' = (steady /\ (ticked => (now > t_now /\ now - t_now <= gap_threshold)))
        /\ UNCHANGED <<settings, session_ended_saved>>

\* a tick of the run loop, the wall clock running forward
TickInOrder ==
    \E d \in Steps, idle_time \in Idles, ok1 \in BOOLEAN, ok2 \in BOOLEAN :
        /\ Tick(idle_time, clock + d, ok1, ok2)
        /\ Did(1)
        /\ UNCHANGED <<store, ret, procs>>

\* reset that also forgets the kind seen last
ResetForgetsKind(ok) ==
    /\ status = "running"
    /\ intervals' = << >>
    /\ last_kind_seen' = "None"
    /\ file' = IF ok THEN Saved(<< >>) ELSE file
    /\ status' = IF ok THEN "running" ELSE "failed"
    /\ UNCHANGED <<settings, session_ended_saved, state_start,
                   last_save, ticked, t_prev, t_idle, t_now, t_kind, t_branch,
                   t_updated, t_saves, t_result, steady, n_ticks>>

\* Tracker::reset; ok is the result of storage.save
Reset(ok) ==
    /\ status = "running"
    /\ intervals' = << >>
    /\ file' = IF ok THEN Saved(<< >>) ELSE file
    /\ status' = IF ok THEN "running" ELSE "failed"
    /\ UNCHANGED <<settings, session_ended_saved, last_kind_seen, state_start,
                   last_save, ticked, t_prev, t_idle, t_now, t_kind, t_branch,
                   t_updated, t_saves, t_result, steady, n_ticks>>

\* the key r of the run loop
ResetKey ==
    \E ok \in BOOLEAN :
        /\ Reset(ok)
        /\ Did(1)
        /\ UNCHANGED <<clock, store, ret, procs>>

Next == TickInOrder \/ ResetKey

Spec == Init /\ [][Next]_vars

\* a run that starts on an empty log and whose ticks follow one another
\* within the gap threshold
InitSteady == Init /\ intervals = << >>

TickSteady ==
    \E d \in SteadySteps, idle_time \in SteadyIdles, ok1 \in BOOLEAN, ok2 \in BOOLEAN :
        /\ Tick(idle_time, clock + d, ok1, ok2)
        /\ Did(1)
        /\ UNCHANGED <<store, ret, procs>>

NextSteady == TickSteady

SpecSteady == InitSteady /\ [][NextSteady]_vars

\* a tick of a run that lasts for months
TickLong ==
    \E d \in LongSteps, idle_time \in LongIdles, ok1 \in BOOLEAN, ok2 \in BOOLEAN :
        /\ Tick(idle_time, clock + d, ok1, ok2)
        /\ Did(1)
        /\ UNCHANGED <<store, ret, procs>>

NextLong == TickLong \/ ResetKey

SpecLong == Init /\ [][NextLong]_vars

\* Tracker::new(storage, threshold_mins, st, et, du): the Tracker it returns
\* for the log db that load returned; a new Tracker has no last tick
TrackerNew(db, threshold_mins, st, et, du) ==
    /\ intervals' = PruneOldData(db, clock)
    /\ threshold_secs' = threshold_mins * SecsPerMin
    /\ last_kind_seen' = "None"
    /\ state_start' = clock
    /\ last_save' = clock
    /\ start_time' = st
    /\ end_time' = et
    /\ duration' = du
    /\ run_start_time' = clock
    /\ session_ended_saved' = FALSE
    /\ status' = "running"
    /\ ticked' = FALSE
    /\ t_prev' = << >>
    /\ t_idle' = 0
    /\ t_now' = 0
    /\ t_kind' = "None"
    /\ t_branch' = "none"
    /\ t_updated' = << >>
    /\ t_saves' = << >>
    /\ t_result' = "Ok"
    /\ steady' = TRUE

\* the variables TrackerNew sets
tracker == <<intervals, settings, last_kind_seen, state_start, last_save,
             session_ended_saved, status, ticked, t_prev, t_idle, t_now, t_kind,
             t_branch, t_updated, t_saves, t_result, steady>>

-----------------------------------------------------------------------------
(* Storage::save step by step, and the process killed in the middle *)

\* a tick of the run whose last save is followed step by step
TickBeforeSave ==
    \E idle_time \in LongIdles, ok1 \in BOOLEAN, ok2 \in BOOLEAN :
        /\ pc[1] = "poll"
        /\ Tick(idle_time, clock + gap_threshold, ok1, ok2)
        /\ Did(1)
        /\ UNCHANGED <<store, ret, procs>>

\* run_loop has returned and main calls storage.save(&tracker.db): the
\* document is serialized, nothing is written yet
SaveBegin ==
    /\ pc[1] = "poll"
    /\ sv = "idle"
    /\ pc' = [pc EXCEPT ![1] = "final"]
    /\ sv' = "begun"
    /\ sv_old' = file
    /\ UNCHANGED <<tracker, file, tmp, clock, lock, touched, n_polls, l_exit, n_ticks, ret>>

\* fs::write(&tmp_path, &data) creates or truncates the file
SaveOpen ==
    /\ sv = "begun"
    /\ sv' = "open"
    /\ tmp' = IF TmpPath = Path THEN tmp ELSE Torn(ToStringPretty(intervals), 0)
    /\ file' = IF TmpPath = Path THEN Torn(ToStringPretty(intervals), 0) ELSE file
    /\ UNCHANGED <<tracker, sv_old, clock, pc, lock, touched, n_polls, l_exit, n_ticks, ret>>

\* fs::write puts out the next part of the document, or its end
SaveWrite ==
    LET data == ToStringPretty(intervals)
        at == IF TmpPath = Path THEN file ELSE tmp
        more == IF Len(at.data) < Len(data) THEN Torn(data, Len(at.data) + 1)
                ELSE Written(data)
    IN  /\ sv = "open"
        /\ sv' = IF more.whole THEN "written" ELSE "open"
        /\ tmp' = IF TmpPath = Path THEN tmp ELSE more
        /\ file' = IF TmpPath = Path THEN more ELSE file
        /\ UNCHANGED <<tracker, sv_old, clock, pc, lock, touched, n_polls, l_exit, n_ticks, ret>>

\* fs::rename(&tmp_path, &self.path): one step of the file system
SaveRename ==
    /\ sv = "written"
    /\ sv' = "renamed"
    /\ file' = IF TmpPath = Path THEN file ELSE tmp
    /\ tmp' = IF TmpPath = Path THEN tmp ELSE NoFile
    /\ Did(1)
    /\ UNCHANGED <<tracker, sv_old, clock, pc, lock, n_polls, l_exit, n_ticks, ret>>

\* save returns Ok and the Start command ends
SaveReturn ==
    /\ sv = "renamed"
    /\ sv' = "idle"
    /\ sv_old' = NoFile
    /\ pc' = [pc EXCEPT ![1] = "done"]
    /\ lock' = {}
    /\ UNCHANGED <<tracker, file, tmp, clock, touched, n_polls, l_exit, n_ticks, ret>>

\* the process is killed at any point of the save; its lock goes with it
Kill ==
    /\ sv \in {"begun", "open", "written", "renamed"}
    /\ sv' = "killed"
    /\ pc' = [pc EXCEPT ![1] = "killed"]
    /\ lock' = {}
    /\ UNCHANGED <<tracker, file, tmp, sv_old, clock, touched, n_polls, l_exit, n_ticks, ret>>

\* the next Start command: the lock is free, Tracker::new loads the canonical
\* file
Restart ==
    /\ pc[1] \in {"done", "killed"}
    /\ Load(file).ok
    /\ TrackerNew(Load(file).db, 1, {}, {}, {})
    /\ pc' = [pc EXCEPT ![1] = "poll"]
    /\ lock' = {1}
    /\ sv' = "idle"
    /\ sv_old' = NoFile
    /\ UNCHANGED <<file, tmp, clock, touched, n_polls, l_exit, n_ticks, ret>>

NextSave ==
    \/ TickBeforeSave
    \/ SaveBegin
    \/ SaveOpen
    \/ SaveWrite
    \/ SaveRename
    \/ SaveReturn
    \/ Kill
    \/ Restart

SpecSave == Init /\ [][NextSave]_vars

-----------------------------------------------------------------------------
(* The Start command: lock, Tracker::new, run loop, final save *)

\* nothing is launched yet; there is no Tracker
InitRun ==
    /\ clock = T0
    /\ file \in RunFiles
    /\ intervals = << >>
    /\ threshold_secs = SecsPerMin
    /\ last_kind_seen = "None"
    /\ state_start = clock
    /\ last_save = clock
    /\ status = "running"
    /\ ticked = FALSE
    /\ t_prev = << >>
    /\ t_idle = 0
    /\ t_now = 0
    /\ t_kind = "None"
    /\ t_branch = "none"
    /\ t_updated = << >>
    /\ t_saves = << >>
    /\ t_result = "Ok"
    /\ steady = TRUE
    /\ n_ticks = 0
    /\ Untimed
    /\ tmp = NoFile
    /\ sv = "idle"
    /\ sv_old = NoFile
    /\ pc = [p \in Procs |-> "start"]
    /\ lock = {}
    /\ touched = [p \in Procs |-> FALSE]
    /\ n_polls = 0
    /\ l_exit = [why |-> "none", at |-> 0]
    /\ ret = NoCall

\* main, Commands::Start: the lock file is opened and try_write is called;
\* its error ends the command
TryLock(p) ==
    /\ pc[p] = "start"
    /\ lock' = TryWrite(lock, p).holders
    /\ pc' = [pc EXCEPT ![p] = IF TryWrite(lock, p).ok THEN "new" ELSE "refused"]
    /\ UNCHANGED <<tracker, file, store, ret, clock, touched, n_polls, l_exit, n_ticks>>

\* Tracker::new under the lock: the error of load ends the command
New(p) ==
    /\ pc[p] = "new"
    /\ Did(p)
    /\ IF Load(file).ok
       THEN /\ \E o \in RunSettings : TrackerNew(Load(file).db, 1, o.st, o.et, o.du)
            /\ pc' = [pc EXCEPT ![p] = "poll"]
            /\ UNCHANGED lock
       ELSE /\ pc' = [pc EXCEPT ![p] = "failed_new"]
            /\ lock' = lock \ {p}
            /\ UNCHANGED tracker
    /\ UNCHANGED <<file, store, ret, clock, n_polls, l_exit, n_ticks>>

\* run_loop returns: why, and when
Exits(why) == l_exit' = [why |-> why, at |-> clock']

\* one iteration draws and polls; no key arrives
PollNone(p) ==
    \E d \in PollSteps :
        /\ pc[p] = "poll"
        /\ n_polls < MaxPolls
        /\ n_polls' = n_polls + 1
        /\ clock' = clock + d
        /\ pc' = [pc EXCEPT ![p] = "sample"]
        /\ UNCHANGED <<tracker, file, store, ret, lock, touched, l_exit, n_ticks>>

\* the key q: run_loop returns Ok at once
PollQuit(p) ==
    \E d \in PollSteps :
        /\ pc[p] = "poll"
        /\ n_polls < MaxPolls
        /\ n_polls' = n_polls + 1
        /\ clock' = clock + d
        /\ pc' = [pc EXCEPT ![p] = "final"]
        /\ Exits("quit")
        /\ UNCHANGED <<tracker, file, store, ret, lock, touched, n_ticks>>

\* the key r: tracker.reset()?, whose error leaves run_loop
PollReset(p) ==
    \E d \in PollSteps, ok \in BOOLEAN :
        /\ pc[p] = "poll"
        /\ n_polls < MaxPolls
        /\ n_polls' = n_polls + 1
        /\ clock' = clock + d
        /\ Reset(ok)
        /\ Did(p)
        /\ pc' = [pc EXCEPT ![p] = IF ok THEN "sample" ELSE "final"]
        /\ IF ok THEN UNCHANGED l_exit ELSE Exits("error")
        /\ UNCHANGED <<store, ret, lock, n_ticks>>

\* should_stop(now): the log is saved once, nothing is ticked and the loop
\* goes on
SampleStop(p) ==
    \E ok \in BOOLEAN :
        /\ pc[p] = "sample"
        /\ ShouldStop(clock, duration, end_time, run_start_time)
        /\ UNCHANGED clock
        /\ IF session_ended_saved
           THEN /\ pc' = [pc EXCEPT ![p] = "poll"]
                /\ UNCHANGED <<file, session_ended_saved, touched, l_exit>>
           ELSE /\ Did(p)
                /\ file' = IF ok THEN Saved(intervals) ELSE file
                /\ session_ended_saved' = ok
                /\ pc' = [pc EXCEPT ![p] = IF ok THEN "poll" ELSE "final"]
                /\ IF ok THEN UNCHANGED l_exit ELSE Exits("error")
        /\ UNCHANGED <<intervals, settings, last_kind_seen, state_start, last_save,
                       status, ticked, t_prev, t_idle, t_now, t_kind, t_branch,
                       t_updated, t_saves, t_result, steady, n_ticks, store, ret, lock,
                       n_polls>>

\* should_track(now): tracker.tick(get_idle_time(), now)?
SampleTick(p) ==
    \E idle_time \in LongIdles, ok1 \in BOOLEAN, ok2 \in BOOLEAN :
        /\ pc[p] = "sample"
        /\ ~ShouldStop(clock, duration, end_time, run_start_time)
        /\ ShouldTrack(clock, duration, start_time)
        /\ Tick(idle_time, clock, ok1, ok2)
        /\ Did(p)
        /\ pc' = [pc EXCEPT ![p] = IF t_result' = "Err" THEN "final" ELSE "poll"]
        /\ IF t_result' = "Err" THEN Exits("error") ELSE UNCHANGED l_exit
        /\ UNCHANGED <<store, ret, lock, n_polls>>

\* neither: the start time is not reached
SampleWait(p) ==
    /\ pc[p] = "sample"
    /\ ~ShouldStop(clock, duration, end_time, run_start_time)
    /\ ~ShouldTrack(clock, duration, start_time)
    /\ pc' = [pc EXCEPT ![p] = "poll"]
    /\ UNCHANGED <<tracker, file, store, ret, clock, lock, touched, n_polls, l_exit, n_ticks>>

\* main after run_tui: the final save, then the command ends and the lock
\* is released
FinalSave(p) ==
    \E ok \in BOOLEAN :
        /\ pc[p] = "final"
        /\ Did(p)
        /\ file' = IF ok THEN Saved(intervals) ELSE file
        /\ pc' = [pc EXCEPT ![p] = IF ok THEN "done" ELSE "failed_save"]
        /\ lock' = lock \ {p}
        /\ UNCHANGED <<tracker, store, ret, clock, n_polls, l_exit, n_ticks>>

NextRun ==
    \E p \in Procs :
        \/ TryLock(p)
        \/ New(p)
        \/ PollNone(p)
        \/ PollQuit(p)
        \/ PollReset(p)
        \/ SampleStop(p)
        \/ SampleTick(p)
        \/ SampleWait(p)
        \/ FinalSave(p)

SpecRun == InitRun /\ [][NextRun]_vars

\* Tracker::new under the lock, given the texts of a configuration: the
\* error of load or of a parse ends the command
NewFromTexts(p) ==
    /\ pc[p] = "new"
    /\ Did(p)
    /\ \E c \in ConfigTexts :
          LET parsed == ParseConfig(c)
          IN  IF Load(file).ok /\ parsed.ok
              THEN /\ TrackerNew(Load(file).db, 1, parsed.st, parsed.et, parsed.du)
                   /\ pc' = [pc EXCEPT ![p] = "poll"]
                   /\ UNCHANGED lock
                   /\ ret' = [fn |-> "Tracker::new", p |-> p, config |-> c,
                              value |-> "Ok"]
              ELSE /\ pc' = [pc EXCEPT ![p] = "failed_new"]
                   /\ lock' = lock \ {p}
                   /\ UNCHANGED tracker
                   /\ ret' = [fn |-> "Tracker::new", p |-> p, config |-> c,
                              value |-> "Err"]
    /\ UNCHANGED <<file, store, clock, n_polls, l_exit, n_ticks>>

NextConfig ==
    \E p \in Procs :
        \/ TryLock(p)
        \/ NewFromTexts(p)
        \/ PollNone(p)
        \/ PollQuit(p)
        \/ PollReset(p)
        \/ SampleStop(p)
        \/ SampleTick(p)
        \/ SampleWait(p)
        \/ FinalSave(p)

\* the Start command given its start time, end time and timeout as texts
SpecConfig == InitRun /\ [][NextConfig]_vars

\* the iterations of run_loop from the end of the session to the next
\* midnight: in each of them should_stop is true and the end-of-session save
\* is done, so nothing happens but the clock moving on
PollNight(p) ==
    /\ pc[p] = "poll"
    /\ n_polls < MaxPolls
    /\ session_ended_saved
    /\ duration = {}
    /\ ShouldStop(clock, duration, end_time, run_start_time)
    /\ n_polls' = n_polls + 1
    /\ clock' = (DateOf(clock) + 1) * SecsPerDay * Second
    /\ pc' = [pc EXCEPT ![p] = "sample"]
    /\ UNCHANGED <<tracker, file, store, ret, lock, touched, l_exit, n_ticks>>

NextDay == NextRun \/ \E p \in Procs : PollNight(p)

\* the Start command left running through the night
SpecDay == InitRun /\ [][NextDay]_vars

\* Tracker::new on a canonical file that may have been edited
InitAny ==
    /\ clock = T0
    /\ file \in {Saved(ivs) : ivs \in AnyLogs}
    /\ intervals = PruneOldData(Load(file).db, clock)
    /\ threshold_secs \in {m * SecsPerMin : m \in ThresholdMins}
    /\ last_kind_seen = "None"
    /\ state_start = clock
    /\ last_save = clock
    /\ status = "running"
    /\ ticked = FALSE
    /\ t_prev = << >>
    /\ t_idle = 0
    /\ t_now = 0
    /\ t_kind = "None"
    /\ t_branch = "none"
    /\ t_updated = << >>
    /\ t_saves = << >>
    /\ t_result = "Ok"
    /\ steady = TRUE
    /\ n_ticks = 0
    /\ Untimed
    /\ FirstHolds

\* a tick of the run loop, the wall clock free to step back
TickAnyClock ==
    \E d \in AnySteps, idle_time \in Idles, ok1 \in BOOLEAN, ok2 \in BOOLEAN :
        /\ Tick(idle_time, clock + d, ok1, ok2)
        /\ Did(1)
        /\ UNCHANGED <<store, ret, procs>>

NextAny == TickAnyClock \/ ResetKey

SpecAny == InitAny /\ [][NextAny]_vars

-----------------------------------------------------------------------------
(* The session window: should_stop and should_track asked at chosen instants *)

\* a Tracker just created at 00:01:00 with an empty log and one of the
\* settings of WindowSettings
InitWindow ==
    /\ clock = T0
    /\ file = NoFile
    /\ intervals = << >>
    /\ threshold_secs \in {m * SecsPerMin : m \in ThresholdMins}
    /\ last_kind_seen = "None"
    /\ state_start = clock
    /\ last_save = clock
    /\ status = "running"
    /\ ticked = FALSE
    /\ t_prev = << >>
    /\ t_idle = 0
    /\ t_now = 0
    /\ t_kind = "None"
    /\ t_branch = "none"
    /\ t_updated = << >>
    /\ t_saves = << >>
    /\ t_result = "Ok"
    /\ steady = TRUE
    /\ n_ticks = 0
    /\ \E w \in WindowSettings :
          /\ start_time = w.st
          /\ end_time = w.et
          /\ duration = w.du
    /\ run_start_time = clock
    /\ session_ended_saved = FALSE
    /\ FirstHolds

\* tracker.should_stop(now), as the run loop calls it
AskStop ==
    \E now \in WindowTimes :
        /\ clock' = now
        /\ ret' = [fn |-> "should_stop", now |-> now,
                   value |-> ShouldStop(now, duration, end_time, run_start_time)]
        /\ UNCHANGED <<tracker, file, store, procs, touched, n_ticks>>

\* tracker.should_track(now), as the run loop calls it
AskTrack ==
    \E now \in WindowTimes :
        /\ clock' = now
        /\ ret' = [fn |-> "should_track", now |-> now,
                   value |-> ShouldTrack(now, duration, start_time)]
        /\ UNCHANGED <<tracker, file, store, procs, touched, n_ticks>>

NextWindow == AskStop \/ AskTrack

SpecWindow == InitWindow /\ [][NextWindow]_vars

-----------------------------------------------------------------------------
(* The statistics of a log: calculate_stats and calculate_summary applied *)

\* a Tracker that holds one of the logs of StatLogs, none of its intervals
\* in the future, started at one of StatRunStarts, the clock at one of
\* StatNows
InitStats ==
    /\ clock \in StatNows
    /\ intervals \in StatLogs
    /\ \A n \in 1..Len(intervals) :
          intervals[n].start <= clock /\ intervals[n].end <= clock
    /\ file = Saved(intervals)
    /\ threshold_secs = SecsPerMin
    /\ last_kind_seen = "None"
    /\ run_start_time \in StatRunStarts
    /\ state_start = run_start_time
    /\ last_save = run_start_time
    /\ status = "running"
    /\ ticked = FALSE
    /\ t_prev = << >>
    /\ t_idle = 0
    /\ t_now = 0
    /\ t_kind = "None"
    /\ t_branch = "none"
    /\ t_updated = << >>
    /\ t_saves = << >>
    /\ t_result = "Ok"
    /\ steady = TRUE
    /\ n_ticks = 0
    /\ start_time = {}
    /\ end_time = {}
    /\ duration = {}
    /\ session_ended_saved = FALSE
    /\ FirstHolds

\* the dashboard computes the statistics of the log
DrawStats ==
    /\ ret' = [fn |-> "calculate_stats",
               value |-> CalculateStats(intervals, {run_start_time}, clock)]
    /\ UNCHANGED <<tracker, file, clock, store, procs, touched, n_ticks>>

\* calculate_summary applied to the whole log
Summarise ==
    /\ ret' = [fn |-> "calculate_summary", value |-> CalculateSummary(intervals)]
    /\ UNCHANGED <<tracker, file, clock, store, procs, touched, n_ticks>>

NextStats == DrawStats \/ Summarise

SpecStats == InitStats /\ [][NextStats]_vars

-----------------------------------------------------------------------------
(* Vocabulary of the properties *)

Sorted(ivs) ==
    \A i \in 1..(Len(ivs) - 1) : ivs[i].start <= ivs[i + 1].start

NoOverlap(ivs) ==
    \A i \in 1..Len(ivs) : \A j \in (i + 1)..Len(ivs) : ivs[i].end <= ivs[j].start

NoNegative(ivs) == \A i \in 1..Len(ivs) : ivs[i].end >= ivs[i].start

\* the last tick ran on a non-empty log within the gap threshold of its end
Near == /\ ticked
        /\ t_prev # << >>
        /\ t_now - Last(t_prev).end <= GapSecs * Second

\* the last tick was a Focus -> Idle transition within the gap threshold
FocusThenIdle == Near /\ Last(t_prev).kind = "Focus" /\ t_kind = "Idle"

\* now - idle_seconds, the idle onset as the specification computes it
ExactIdleStart == t_now - t_idle

\* now - idle_seconds with idle_seconds cut to whole seconds
WholeIdleStart == t_now - (t_idle \div Second) * Second

SplitAt(idle_start) ==
    Append(ReplaceLast(t_prev, [Last(t_prev) EXCEPT !.end = idle_start]),
           [start |-> idle_start, end |-> t_now, kind |-> "Idle"])

CollapsedLog ==
    ReplaceLast(t_prev, [Last(t_prev) EXCEPT !.kind = "Idle", !.end = t_now])

-----------------------------------------------------------------------------
(* Properties *)

\* C1: while every step between consecutive ticks is strictly positive and at
\* most 10 s, the log is sorted by non-decreasing start and no interval ends
\* after a later one starts, whatever the classifications and idle times.
C1_SortedNoOverlap == steady => (Sorted(intervals) /\ NoOverlap(intervals))

\* C1 witness: three steady ticks that began on an empty log left three
\* intervals.
C1_Witness ==
    /\ steady
    /\ n_ticks = 3
    /\ Len(intervals) = 3
    /\ intervals[1].start >= T0

\* C2: after every tick the log holds no interval with end < start, on every
\* path of the tick.
C2_NoNegativeAfterTick == ticked => NoNegative(intervals)

\* C3 as stated: on a Focus -> Idle tick within the gap threshold whose
\* idle_start = now - idle_seconds is after last.start, last.end becomes that
\* idle_start and one Idle interval [idle_start, now] is appended.
C3_SplitExact ==
    (FocusThenIdle /\ ExactIdleStart > Last(t_prev).start)
        => t_updated = SplitAt(ExactIdleStart)

\* C3 amended: the same with idle_start = now - idle_seconds cut to whole
\* seconds: the log grows by one, last stays Focus with its start, and the two
\* intervals meet at idle_start.
C3_SplitWhole ==
    (FocusThenIdle /\ WholeIdleStart > Last(t_prev).start)
        => /\ t_updated = SplitAt(WholeIdleStart)
           /\ Len(t_updated) = Len(t_prev) + 1
           /\ t_updated[Len(t_prev)].kind = "Focus"
           /\ t_updated[Len(t_prev)].start = Last(t_prev).start
           /\ t_updated[Len(t_prev)].end = Last(t_updated).start

\* C3 witness: a split whose idle time is not a whole number of seconds, under
\* a threshold of one minute.
C3_Witness ==
    /\ FocusThenIdle
    /\ threshold_secs = SecsPerMin
    /\ WholeIdleStart > Last(t_prev).start
    /\ t_idle % Second # 0
    /\ t_branch = "split"

\* C4 as stated: on a Focus -> Idle tick within the gap threshold whose
\* idle_start = now - idle_seconds is at or before last.start, the last interval
\* becomes Idle in place with end = now and nothing is appended.
C4_CollapseExact ==
    (FocusThenIdle /\ ExactIdleStart <= Last(t_prev).start)
        => t_updated = CollapsedLog

\* C4 amended: the same with idle_start = now - idle_seconds cut to whole
\* seconds, the tie idle_start = last.start included.
C4_CollapseWhole ==
    (FocusThenIdle /\ WholeIdleStart <= Last(t_prev).start)
        => /\ t_updated = CollapsedLog
           /\ Len(t_updated) = Len(t_prev)
           /\ Last(t_updated).start = Last(t_prev).start

\* C4 witness: the tie, idle_start = last.start, on an interval of positive
\* length.
C4_Witness ==
    /\ FocusThenIdle
    /\ WholeIdleStart = Last(t_prev).start
    /\ Last(t_prev).end > Last(t_prev).start
    /\ t_branch = "collapse"

C8_Maximal ==
    \A i \in 1..(Len(intervals) - 1) :
        intervals[i].end = intervals[i + 1].start
            => intervals[i].kind # intervals[i + 1].kind

\* C9 as stated: for every threshold, a tick with idle_seconds <= 0 is Focus
\* and takes neither the collapse nor the split branch.
C9_NonPositiveIsFocus ==
    (ticked /\ t_idle <= 0)
        => (t_kind = "Focus" /\ t_branch \notin {"collapse", "split"})

\* C9 amended: for every threshold of at least one minute, a tick with
\* idle_seconds <= 0 is Focus and takes neither the collapse nor the split
\* branch.
C9_NonPositiveIsFocusAboveZero ==
    (ticked /\ threshold_secs > 0 /\ t_idle <= 0)
        => (t_kind = "Focus" /\ t_branch \notin {"collapse", "split"})

\* C9 witness: a tick with idle_seconds = 0 on an Idle interval, threshold one
\* minute.
C9_Witness ==
    /\ Near
    /\ threshold_secs > 0
    /\ t_idle = 0
    /\ Last(t_prev).kind = "Idle"
    /\ t_branch = "idle_to_focus"

\* C10: a tick is Idle exactly when idle_seconds >= threshold_seconds, else
\* Focus, and that kind is the one the log update and the session see.
C10_Classification ==
    ticked
        => LET kind == IF t_idle >= threshold_secs * Second THEN "Idle" ELSE "Focus"
           IN  /\ t_kind = kind
               /\ last_kind_seen = kind
               /\ Last(t_updated).kind = kind

\* C10 witness: a sample exactly at a threshold of one minute is Idle.
C10_Witness ==
    /\ ticked
    /\ threshold_secs = SecsPerMin
    /\ t_idle = threshold_secs * Second
    /\ t_kind = "Idle"

\* C11: a tick on an empty log leaves exactly one interval, of zero length at
\* now and of the tick's kind, whatever the idle time: an Idle first tick is not
\* backdated.
C11_FirstInterval ==
    (ticked /\ t_prev = << >>)
        => /\ t_updated = << [start |-> t_now, end |-> t_now, kind |-> t_kind] >>
           /\ t_branch = "empty"

\* C11 witness: a first tick that is Idle with a minute of idle time, under a
\* threshold of one minute.
C11_Witness ==
    /\ ticked
    /\ t_prev = << >>
    /\ t_kind = "Idle"
    /\ threshold_secs = SecsPerMin
    /\ t_idle >= 60 * Second
    /\ Len(t_updated) = 1
    /\ t_updated[1].start = t_now

\* C12: a tick whose classification differs from that of the previous tick (the
\* first tick differs from none) sets state_start = now and calls storage.save
\* on the log update_db left; when that save succeeds the canonical file holds
\* that log and last_save = now, when it fails the tick returns the error. A
\* tick whose classification is the previous one leaves state_start alone.
C12_TransitionSave ==
    [][(n_ticks' = n_ticks + 1)
          => /\ (t_kind' # t_kind)
                  => /\ state_start' = t_now'
                     /\ t_saves' # << >>
                     /\ t_saves'[1].why = "transition"
                     /\ t_saves'[1].ok
                          => /\ t_result' = "Ok"
                             /\ Load(file').ok
                             /\ Load(file').db = t_updated'
                             /\ last_save' = t_now'
                     /\ ~t_saves'[1].ok => t_result' = "Err"
             /\ (t_kind' = t_kind) => state_start' = state_start]_vars

\* C12 witness: the second tick of a run turned Focus into Idle and its log of
\* two intervals was saved in that tick.
C12_Witness ==
    /\ n_ticks = 2
    /\ t_prev # << >>
    /\ Last(t_prev).kind = "Focus"
    /\ t_kind = "Idle"
    /\ t_saves = << SaveCall("transition", TRUE) >>
    /\ state_start = t_now
    /\ last_save = t_now
    /\ Len(t_updated) = 2
    /\ Load(file).db = t_updated

\* C13: a tick that arrives more than 30 s after last_save calls storage.save,
\* the periodic one when the classification did not change; when the save
\* succeeds the canonical file holds the tick's log and last_save = now. So
\* after every tick that returned Ok, now - last_save <= 30 s.
C13_PeriodicSave ==
    /\ [](ticked /\ t_result = "Ok" => t_now - last_save <= SaveSecs * Second)
    /\ [][(n_ticks' = n_ticks + 1 /\ t_now' - last_save > SaveSecs * Second)
             => /\ t_saves' # << >>
                /\ (t_kind' = t_kind) => t_saves'[1].why = "periodic"
                /\ t_result' = "Ok"
                     => /\ Load(file').ok
                        /\ Load(file').db = intervals'
                        /\ last_save' = t_now']_vars

\* C13 witness: a tick 31 s after the last save, of the classification the
\* run has had since state_start, was saved by the periodic save alone.
C13_Witness ==
    /\ n_ticks >= 2
    /\ t_saves = << SaveCall("periodic", TRUE) >>
    /\ state_start < t_now
    /\ last_kind_seen = t_kind
    /\ last_save = t_now
    /\ Load(file).db = intervals
    /\ intervals # << >>

C18_TickResult ==
    ticked
        => /\ (t_result = "Err") <=> (\E n \in 1..Len(t_saves) : ~t_saves[n].ok)
           /\ \A n \in 1..Len(t_saves) : ~t_saves[n].ok => n = Len(t_saves)
           /\ \A n, k \in 1..Len(t_saves) : t_saves[n].why = t_saves[k].why => n = k
           /\ (t_result = "Err") => status = "failed"
           /\ (t_saves = << >>) => t_result = "Ok"

\* C18 witness: the periodic save of a tick failed, the tick returned Err and
\* the canonical file still holds the log of the earlier save.
C18_Witness ==
    /\ ticked
    /\ t_saves = << SaveCall("periodic", FALSE) >>
    /\ t_result = "Err"
    /\ status = "failed"
    /\ last_save < t_now
    /\ Load(file).db # intervals

\* C20: the log a periodic save wrote holds no interval whose end is 30 days
\* or more before the tick's now: it is the tick's log with those intervals
\* removed, and it is the log the Tracker holds after the tick.
C20_PeriodicPrune ==
    (ticked /\ intervals # << >> /\ t_saves # << >>
        /\ Last(t_saves) = SaveCall("periodic", TRUE))
        => /\ Load(file).ok
           /\ \A n \in 1..Len(Load(file).db) :
                 t_now - Load(file).db[n].end < RetentionDays * SecsPerDay * Second
           /\ \A n \in 1..Len(t_updated) :
                 t_now - t_updated[n].end < RetentionDays * SecsPerDay * Second
                    => \E k \in 1..Len(Load(file).db) : Load(file).db[k] = t_updated[n]
           /\ Load(file).db = intervals

\* C20 witness: a periodic save of a tick whose log held an interval that
\* ended more than 30 days before; the file holds the log without it.
C20_Witness ==
    /\ ticked
    /\ t_saves = << SaveCall("periodic", TRUE) >>
    /\ \E n \in 1..Len(t_updated) :
          t_now - t_updated[n].end > RetentionDays * SecsPerDay * Second
    /\ Len(Load(file).db) < Len(t_updated)
    /\ Load(file).db # << >>

\* C15: from the first step of a save to the restart after a kill, the
\* canonical file is the file the save found or the whole new document,
\* never a part of one, and load of it returns the old log or the new log.
C15_AtomicSave ==
    (sv # "idle")
        => /\ file = sv_old \/ file = Saved(intervals)
           /\ file.whole
           /\ Load(file).ok
           /\ Load(file).db = Load(sv_old).db \/ Load(file).db = intervals

\* C15 witness: the process was killed while the temporary file held a part
\* of the new document; the canonical file still holds the older log.
C15_Witness ==
    /\ sv = "killed"
    /\ tmp.exists
    /\ ~tmp.whole
    /\ Len(tmp.data) = 1
    /\ Len(intervals) = 2
    /\ file = sv_old
    /\ Load(file).db # << >>
    /\ Load(file).db # intervals

\* the positions of a Start command between taking the lock and its end
InSession == {"new", "poll", "sample", "final"}

\* C14: when run_loop of a run that has ticked has returned after the key q,
\* its last tick ran at the time of the quit, so that the log the forced save
\* writes ends at the stop time; and once the end time or the timeout is
\* reached the loop has terminated.
C14_FinalTick ==
    \A p \in Procs :
        /\ (pc[p] = "final" /\ l_exit.why = "quit" /\ ticked)
              => /\ t_now = l_exit.at
                 /\ intervals # << >> => Last(intervals).end = l_exit.at
        /\ (pc[p] \in {"poll", "sample"}) => ~session_ended_saved

\* C17: load of an absent file is Ok with an empty log, and load of a file
\* that exists but cannot be read or does not parse is an error: Tracker::new
\* fails on such a file and returns a Tracker only when the file is absent or
\* is a readable whole document.
C17_LoadOutcomes ==
    LET bad == file.exists /\ (~file.stat \/ ~file.readable \/ ~file.whole)
    IN  \A p \in Procs :
            /\ (pc[p] = "new" /\ ~file.exists)
                  => (Load(file).ok /\ Load(file).db = << >>)
            /\ (pc[p] = "new" /\ bad) => ~Load(file).ok
            /\ (pc[p] = "failed_new") => bad
            /\ (pc[p] = "poll" /\ n_polls = 0) => ~bad

\* C19: at most one Start command is between its lock and its end, and it is
\* the one holder of the lock; a Start command that has not the lock has not
\* loaded, ticked or saved; try_write on a held lock ends the command there,
\* on a free lock it takes it.
C19_OneSession ==
    /\ [](/\ Cardinality({p \in Procs : pc[p] \in InSession}) <= 1
          /\ \A p \in Procs : pc[p] \in InSession => lock = {p}
          /\ \A p \in Procs : pc[p] \in {"start", "refused"} => ~touched[p])
    /\ [][\A p \in Procs :
            (pc[p] = "start" /\ pc'[p] # "start")
                => /\ lock # {} => (pc'[p] = "refused" /\ lock' = lock)
                   /\ lock = {} => (pc'[p] = "new" /\ lock' = {p})]_vars

\* C19 witness: the second Start command was refused while the first one,
\* which has ticked, is in its run loop.
C19_Witness ==
    /\ pc[2] = "refused"
    /\ pc[1] = "sample"
    /\ lock = {1}
    /\ n_ticks >= 1
    /\ touched[1]
    /\ ~touched[2]

-----------------------------------------------------------------------------
(* Retention, removal, statistics and the session window *)

\* the last tick called prune_old_data: its periodic save was due
Pruned(saves) == \E k \in 1..Len(saves) : saves[k].why = "periodic"

\* the age of the end of interval i at the instant now
Age(i, now) == now - i.end

\* C21 as written: prune_old_data removes exactly the intervals whose end is
\* more than 30 days before now and keeps every other one, in order.
C21_PruneOlder ==
    [][(n_ticks' = n_ticks + 1 /\ Pruned(t_saves'))
        => LET Keep(i) == ~(Age(i, t_now') > RetentionDays * SecsPerDay * Second)
           IN  intervals' = SelectSeq(t_updated', Keep)]_vars

\* C21: prune_old_data removes exactly the intervals whose end is 30 days or
\* more before now and keeps every other one unmodified and in order: an
\* interval that ended exactly 30 days ago is removed too.
C21_PruneAtOrOlder ==
    [][(n_ticks' = n_ticks + 1 /\ Pruned(t_saves'))
        => LET Keep(i) == Age(i, t_now') < RetentionDays * SecsPerDay * Second
           IN  intervals' = SelectSeq(t_updated', Keep)]_vars

\* C21 witness: a tick pruned a log of two intervals, the first of which had
\* ended exactly 30 days before; only the second is left.
C21_Witness ==
    /\ ticked
    /\ Pruned(t_saves)
    /\ Len(t_updated) = 2
    /\ Age(t_updated[1], t_now) = RetentionDays * SecsPerDay * Second
    /\ intervals = << t_updated[2] >>

C29_Reset ==
    /\ [][(n_ticks' = n_ticks)
            => /\ intervals' = << >>
               /\ status' = "running" => (Load(file').ok /\ Load(file').db = << >>)
               /\ status' # "running" => file' = file
               /\ last_kind_seen' = last_kind_seen
               /\ state_start' = state_start
               /\ last_save' = last_save
               /\ run_start_time' = run_start_time]_vars
    /\ [][(n_ticks' = n_ticks + 1 /\ ticked /\ intervals = << >>)
            => /\ t_branch' = "empty"
               /\ Len(t_updated') = 1
               /\ t_updated'[1].start = t_now'
               /\ t_updated'[1].end = t_now']_vars

\* C29 witness: after a tick and a successful reset the next tick, of the
\* kind seen before the reset, took the empty-log path; the kind seen last
\* survived the reset, so no transition save was made.
C29_Witness ==
    /\ n_ticks = 2
    /\ t_prev = << >>
    /\ t_branch = "empty"
    /\ status = "running"
    /\ Len(intervals) = 1
    /\ \A k \in 1..Len(t_saves) : t_saves[k].why # "transition"

C27_ShouldStop ==
    (ret.fn = "should_stop")
        => LET elapsed == \E d \in duration : ret.now - run_start_time >= d
               past_end == \E t \in end_time : LocalTime(ret.now) >= t
           IN  /\ ret.value <=> \/ duration # {} /\ elapsed
                                \/ duration = {} /\ end_time # {} /\ past_end
               /\ duration # {} => (ret.value <=> elapsed)

\* C27 witness: a timeout and an end time are set, the end time has passed
\* and the timeout has not: should_stop is false.
C27_Witness ==
    /\ ret.fn = "should_stop"
    /\ duration # {}
    /\ end_time # {}
    /\ \E t \in end_time : LocalTime(ret.now) >= t
    /\ \E d \in duration : ret.now - run_start_time < d
    /\ ~ret.value

\* C28: should_track(now) is false exactly when no timeout is set, a start
\* time is set and the local time of day is before it; with a timeout set the
\* start time plays no part and should_track is true.
C28_ShouldTrack ==
    (ret.fn = "should_track")
        => LET early == \E t \in start_time : LocalTime(ret.now) < t
           IN  /\ ~ret.value <=> (duration = {} /\ start_time # {} /\ early)
               /\ duration # {} => ret.value

\* C28 witness: a timeout and a start time are set and the local time is
\* before the start time: should_track is true.
C28_Witness ==
    /\ ret.fn = "should_track"
    /\ duration # {}
    /\ start_time # {}
    /\ \E t \in start_time : LocalTime(ret.now) < t
    /\ ret.value

\* the intervals of ivs that do not end before they start
Kept(ivs) ==
    LET Test(i) == i.end >= i.start
    IN  SelectSeq(ivs, Test)

\* the intervals of ivs of one kind
OfKind(ivs, kind) ==
    LET Test(i) == i.kind = kind
    IN  SelectSeq(ivs, Test)

\* the intervals of ivs whose start date is one of the days lo..hi
StartedOn(ivs, lo, hi) ==
    LET Test(i) == DateOf(i.start) \in lo..hi
    IN  SelectSeq(ivs, Test)

\* the intervals of ivs that start at t or later
StartedSince(ivs, t) ==
    LET Test(i) == i.start >= t
    IN  SelectSeq(ivs, Test)

\* the sum of end - start over ivs
RECURSIVE TotalDuration(_)
TotalDuration(ivs) ==
    IF ivs = << >> THEN 0
    ELSE Head(ivs).end - Head(ivs).start + TotalDuration(Tail(ivs))

\* summary holds the totals and counts of exactly the intervals ivs
Counts(summary, ivs) ==
    /\ summary.focus_count = Len(OfKind(ivs, "Focus"))
    /\ summary.idle_count = Len(OfKind(ivs, "Idle"))
    /\ summary.total_focus = TotalDuration(OfKind(ivs, "Focus"))
    /\ summary.total_idle = TotalDuration(OfKind(ivs, "Idle"))

\* the day bucket holds the totals and counts of exactly the intervals ivs
BucketCounts(bucket, ivs) ==
    /\ bucket.focus_sessions = Len(OfKind(ivs, "Focus"))
    /\ bucket.idle_sessions = Len(OfKind(ivs, "Idle"))
    /\ bucket.total_focus = TotalDuration(OfKind(ivs, "Focus"))
    /\ bucket.total_idle = TotalDuration(OfKind(ivs, "Idle"))

\* C23: every aggregate of calculate_stats skips the intervals with
\* end < start: each day bucket and the session, today and week summaries
\* hold the totals and counts of the other intervals of their selection only.
C23_AggregatesSkip ==
    (ret.fn = "calculate_stats")
        => LET stats == ret.value
               kept == Kept(intervals)
           IN  /\ \A date \in DOMAIN stats.daily_stats :
                     BucketCounts(stats.daily_stats[date], StartedOn(kept, date, date))
               /\ Counts(stats.session_summary, StartedSince(kept, run_start_time))
               /\ Counts(stats.today_summary, StartedOn(kept, stats.today, stats.today))
               /\ Counts(stats.week_summary,
                         StartedOn(kept, stats.week_start, stats.week_start + 6))

Longest(ivs) ==
    {d \in {ivs[n].end - ivs[n].start : n \in 1..Len(ivs)} :
        \A m \in 1..Len(ivs) : ivs[m].end - ivs[m].start <= d}

\* the smallest of the durations of ivs, as an Option
Shortest(ivs) ==
    {d \in {ivs[n].end - ivs[n].start : n \in 1..Len(ivs)} :
        \A m \in 1..Len(ivs) : ivs[m].end - ivs[m].start >= d}

\* summary is, per kind, the total, count, maximum and minimum of exactly the
\* intervals ivs, the maximum and minimum absent exactly when the count is 0
SummaryOf(summary, ivs) ==
    /\ Counts(summary, ivs)
    /\ summary.max_focus = Longest(OfKind(ivs, "Focus"))
    /\ summary.min_focus = Shortest(OfKind(ivs, "Focus"))
    /\ summary.max_idle = Longest(OfKind(ivs, "Idle"))
    /\ summary.min_idle = Shortest(OfKind(ivs, "Idle"))
    /\ summary.max_focus = {} <=> summary.focus_count = 0
    /\ summary.min_focus = {} <=> summary.focus_count = 0
    /\ summary.max_idle = {} <=> summary.idle_count = 0
    /\ summary.min_idle = {} <=> summary.idle_count = 0

\* C25 as written: calculate_summary over any list returns, per kind, the
\* total, count, maximum and minimum over all intervals of the list.
C25_SummaryOfAll ==
    (ret.fn = "calculate_summary") => SummaryOf(ret.value, intervals)

\* C25: calculate_summary over any list returns, per kind, the total of
\* end - start, the count, the largest and the smallest duration of the
\* intervals with end >= start, those with end < start being skipped;
\* maximum and minimum are absent exactly when the count of the kind is 0,
\* and on an empty list every total and count is zero and each of them absent.
C25_SummaryOfKept ==
    (ret.fn = "calculate_summary")
        => /\ SummaryOf(ret.value, Kept(intervals))
           /\ intervals = << >> => ret.value = SummaryDefault

\* C25 witness: the summary of a list with three Focus intervals, one of them
\* with end < start: two are counted, the maximum is two hours and the
\* minimum one hour, and no Idle maximum exists.
C25_Witness ==
    /\ ret.fn = "calculate_summary"
    /\ Len(OfKind(intervals, "Focus")) = 3
    /\ Len(OfKind(intervals, "Idle")) = 0
    /\ Kept(intervals) # intervals
    /\ ret.value.focus_count = 2
    /\ ret.value.max_focus = {2 * 60 * SecsPerMin * Second}
    /\ ret.value.min_focus = {60 * SecsPerMin * Second}
    /\ ret.value.max_idle = {}

-----------------------------------------------------------------------------
(* Conservation of time, frames, the end of the session and construction *)

\* consecutive intervals of ivs meet: each ends where the next starts
Contiguous(ivs) ==
    \A i \in 1..(Len(ivs) - 1) : ivs[i].end = ivs[i + 1].start

\* C31: in a run that starts on an empty log, with non-decreasing now and
\* every step at most 10 s, consecutive intervals are contiguous, the first
\* interval starts at the now of the first tick and keeps that start, the
\* last ends at the latest now, and the Focus and Idle totals add up to the
\* time from the first tick to the latest.
C31_TimeConservation ==
    /\ [](ticked
            => /\ intervals # << >>
               /\ Contiguous(intervals)
               /\ Last(intervals).end = t_now
               /\ TotalDuration(OfKind(intervals, "Focus"))
                    + TotalDuration(OfKind(intervals, "Idle"))
                    = t_now - intervals[1].start)
    /\ [][(n_ticks' = n_ticks + 1)
            => intervals'[1].start = IF intervals = << >> THEN t_now'
                                     ELSE intervals[1].start]_vars

\* C31 witness: after two Focus ticks 10 s apart a tick found the user idle
\* for 5 s and moved the boundary back into the Focus interval; the two
\* intervals meet there and together last from the first tick to the third.
C31_Witness ==
    /\ n_ticks = 3
    /\ t_branch = "split"
    /\ Len(intervals) = 2
    /\ intervals[1].kind = "Focus"
    /\ intervals[2].kind = "Idle"
    /\ intervals[1].start < intervals[1].end
    /\ intervals[1].end < Last(t_prev).end
    /\ intervals[1].end = intervals[2].start
    /\ intervals[2].end = t_now
    /\ t_now - intervals[1].start > 10 * Second

C33_SessionEndPermanent ==
    /\ [](\A p \in Procs :
            (pc[p] = "sample" /\ session_ended_saved)
                => ShouldStop(clock, duration, end_time, run_start_time))
    /\ [][(session_ended_saved /\ \A p \in Procs : pc[p] # "new")
            => /\ n_ticks' = n_ticks
               /\ intervals' = intervals \/ intervals' = << >>]_vars

\* C34: a tick calls storage.save at most once; last_save becomes now when
\* that save succeeds and is left as it was when the save fails (the tick
\* then returns the error) or when the tick calls no save; a reset leaves it
\* alone too.
C34_LastSave ==
    /\ [][(n_ticks' = n_ticks + 1)
            => /\ Len(t_saves') <= 1
               /\ t_saves' = << >> => last_save' = last_save
               /\ (t_saves' # << >> /\ ~t_saves'[1].ok)
                     => (last_save' = last_save /\ t_result' = "Err")
               /\ (t_saves' # << >> /\ t_saves'[1].ok) => last_save' = t_now'
               /\ last_save' # last_save => (t_saves' # << >> /\ t_saves'[1].ok)]_vars
    /\ [][(n_ticks' = n_ticks) => last_save' = last_save]_vars

\* C34 witness: a tick more than 30 s after the one before changed the kind:
\* it made the transition save, which set last_save = now, and no periodic
\* save.
C34_Witness ==
    /\ n_ticks >= 2
    /\ t_prev # << >>
    /\ t_now - Last(t_prev).end > SaveSecs * Second
    /\ t_saves = << SaveCall("transition", TRUE) >>
    /\ last_save = t_now
    /\ t_result = "Ok"

\* a text that is a time of day: an hour of 0 to 23 and a minute of 0 to 59
WellFormedTime(txt) == txt.form = "HH:MM" /\ txt.h < 24 /\ txt.m < 60

\* a text that is a span of time: a number and a unit
WellFormedDuration(txt) == txt.form = "span"

\* a configuration one of whose texts is malformed
Malformed(c) ==
    \/ \E t \in c.st \cup c.et : ~WellFormedTime(t)
    \/ \E d \in c.du : ~WellFormedDuration(d)

\* C35: Tracker::new given a malformed start time, end time or timeout
\* returns an error: the command ends there with no Tracker, and no step
\* after it ticks or writes the file; Tracker::new itself never writes the
\* file, it leaves the log as it was when it fails and holds the loaded log
\* without the intervals older than 30 days when it succeeds.
C35_MalformedConfig ==
    /\ []((ret.fn = "Tracker::new" /\ Malformed(ret.config))
            => /\ ret.value = "Err"
               /\ pc[ret.p] = "failed_new"
               /\ ret.p \notin lock)
    /\ [][(ret.fn = "Tracker::new" /\ Malformed(ret.config))
            => (file' = file /\ n_ticks' = n_ticks)]_vars
    /\ [][\A p \in Procs :
            (pc[p] = "new" /\ pc'[p] # "new")
                => /\ file' = file
                   /\ n_ticks' = n_ticks
                   /\ pc'[p] = "failed_new" => intervals' = intervals
                   /\ pc'[p] = "poll"
                         => /\ Load(file).ok
                            /\ ~Malformed(ret'.config)
                            /\ intervals' = PruneOldData(Load(file).db, clock)]_vars

\* C35 witness: Tracker::new was given a timeout of 20s and a start time that
\* is not a time; it returned an error after loading a file that holds a log,
\* and the file is as it was.
C35_Witness ==
    /\ ret.fn = "Tracker::new"
    /\ ret.value = "Err"
    /\ ret.config.st = {NotATime}
    /\ ret.config.du = {TwentySeconds}
    /\ pc[ret.p] = "failed_new"
    /\ Load(file).ok
    /\ Load(file).db # << >>
    /\ intervals = << >>
    /\ n_ticks = 0

=============================================================================
